---------------------------- MODULE Spec2Model ----------------------------
(***************************************************************************)
(* Model of cursor/cursor.c: the RESOURCE_MANAGER parser                   *)
(* (parse_resource_manager), the default size heuristic (get_default_size) *)
(* and the context lifecycle (xcb_cursor_context_new / _free).             *)
(*                                                                         *)
(* Text is a sequence of one-character strings.  Pointers are indexes into *)
(* the heap, 0 being NULL.  A C string inside a buffer is the text from a  *)
(* position up to the next NUL.                                            *)
(***************************************************************************)
EXTENDS Integers, Sequences, FiniteSets, TLC

VARIABLES
    env,       \* the process environment: <<>> or <<text of XCURSOR_SIZE>>
    conn,      \* what the connection answers: screen, property reply, formats
    heap,      \* every block malloc'ed so far, with the number of free() calls
    ctx,       \* *ctx of xcb_cursor_context_new: 0 (NULL) or the context block
    c,         \* the fields of the context
    screen,    \* xcb_cursor_context_new's local: what screen-> reads
    rm,        \* parse_resource_manager's local: the copy of the blob, or 0
    str,       \* the loop's str: rm in the first turn, 0 (NULL) afterwards
    saveptr,   \* strtok_r's position in the copy
    pc,        \* where the caller and the called function stand
    ret,       \* what xcb_cursor_context_new returned
    rm_reply,  \* xcb_cursor_context_new's local: the property reply, or 0
    fault,     \* "none", or how undefined behaviour ended the process
    failed     \* history: the keys whose latest strdup() returned NULL

vars == <<env, conn, heap, ctx, c, screen, rm, str, saveptr, pc, ret, rm_reply,
          fault, failed>>

----------------------------------------------------------------------------
(* Bounds of the model *)

MaxLines == 2

----------------------------------------------------------------------------
(* Integers.  TLC's integers are 32 bits wide, so a number that may exceed  *)
(* an int (a uint32_t above INT_MAX, the product dpi * 16, the number a     *)
(* long numeral denotes) is kept as a pair: hi * 2^16 + lo with             *)
(* 0 <= lo < 2^16.                                                          *)

B16 == 2^16

INT_MAX == (2^30 - 1) + 2^30
INT_MIN == -INT_MAX - 1

Wide(hi, lo) == [hi |-> hi, lo |-> lo]

WOfInt(n) == Wide(n \div B16, n % B16)

\* w * k and w + d for a small k >= 0 and a small d
WMul(w, k) == LET t == w.lo * k IN Wide(w.hi * k + t \div B16, t % B16)

WAdd(w, d) == LET t == w.lo + d IN Wide(w.hi + t \div B16, t % B16)

WNeg(w) == IF w.lo = 0 THEN Wide(-w.hi, 0) ELSE Wide(-w.hi - 1, B16 - w.lo)

\* whether an int holds w, and then that int
WInInt(w) == -(B16 \div 2) <= w.hi /\ w.hi < B16 \div 2

WToInt(w) == w.hi * B16 + w.lo

\* the int left when w is cut to 32 bits (two's complement wrap-around)
WWrap32(w) == WToInt(Wide(((w.hi + B16 \div 2) % B16) - B16 \div 2, w.lo))

\* w / k for a small k > 0, truncating towards zero as C does
WDiv(w, k) ==
    LET DivPos(p) == Wide(p.hi \div k, ((p.hi % k) * B16 + p.lo) \div k)
    IN  IF w.hi < 0 THEN WNeg(DivPos(WNeg(w))) ELSE DivPos(w)

\* C's integer division of an int by a small k > 0
CDiv(a, k) == WToInt(WDiv(WOfInt(a), k))

\* conversion to uint32_t: the value modulo 2^32
ToU32(w) == Wide(w.hi % B16, w.lo)

----------------------------------------------------------------------------
(* Characters and C strings *)

NUL == "NUL"

Digits == <<"0", "1", "2", "3", "4", "5", "6", "7", "8", "9">>

IsDigit(ch) == \E i \in 1..10 : Digits[i] = ch

DigitVal(ch) == (CHOOSE i \in 1..10 : Digits[i] = ch) - 1

\* the characters isspace() accepts in the C locale (the vertical tab has no
\* TLA+ literal)
Whitespace == {" ", "\t", "\n", "\r", "\f"}

isspace(ch) == ch \in Whitespace

\* the first position >= i of buf holding a character of S; every buffer ends
\* with a NUL and every S used holds NUL
RECURSIVE ScanTo(_, _, _)
ScanTo(buf, i, S) == IF buf[i] \in S THEN i ELSE ScanTo(buf, i + 1, S)

\* the first position >= i of buf whose character is not in S (NUL is in no S)
RECURSIVE SkipOver(_, _, _)
SkipOver(buf, i, S) == IF buf[i] \in S THEN SkipOver(buf, i + 1, S) ELSE i

\* the C string that starts at position i of buf
CStr(buf, i) == SubSeq(buf, i, ScanTo(buf, i, {NUL}) - 1)

\* strchr(s, ch): the position of the first ch of the C string at i, or 0
strchr(buf, i, ch) ==
    LET j == ScanTo(buf, i, {ch, NUL}) IN IF buf[j] = ch THEN j ELSE 0

\* asprintf(&rm, "%.*s", n, value): at most n bytes of value, cut at a NUL
PrintfPrecS(value, n) ==
    LET m == IF n < Len(value) THEN n ELSE Len(value)
        t == SubSeq(value, 1, m) \o <<NUL>>
    IN  CStr(t, 1) \o <<NUL>>

----------------------------------------------------------------------------
(* atoi() *)

RECURSIVE DigitsValue(_, _, _)
DigitsValue(buf, i, acc) ==
    IF IsDigit(buf[i])
    THEN DigitsValue(buf, i + 1, WAdd(WMul(acc, 10), DigitVal(buf[i])))
    ELSE acc

\* the number a text denotes for atoi(): leading whitespace, an optional sign,
\* then the leading digits (none: 0); whatever follows is ignored
AtoiValue(s) ==
    LET buf == s \o <<NUL>>
        i   == SkipOver(buf, 1, Whitespace)
        j   == IF buf[i] \in {"+", "-"} THEN i + 1 ELSE i
        v   == DigitsValue(buf, j, WOfInt(0))
    IN  IF buf[i] = "-" THEN WNeg(v) ELSE v

\* what atoi() may return: the number when an int holds it; otherwise the
\* behaviour is undefined (libraries wrap around or saturate)
atoi(s) ==
    LET v == AtoiValue(s)
    IN  IF WInInt(v) THEN {WToInt(v)}
        ELSE {WWrap32(v), IF v.hi < 0 THEN INT_MIN ELSE INT_MAX}

----------------------------------------------------------------------------
(* The recognized keys *)

RM_XCURSOR_THEME == "RM_XCURSOR_THEME"
RM_XCURSOR_SIZE  == "RM_XCURSOR_SIZE"
RM_XFT_DPI       == "RM_XFT_DPI"

Keys == {RM_XCURSOR_THEME, RM_XCURSOR_SIZE, RM_XFT_DPI}

Xcursor_theme == <<"X", "c", "u", "r", "s", "o", "r", ".", "t", "h", "e", "m", "e">>
Xcursor_size  == <<"X", "c", "u", "r", "s", "o", "r", ".", "s", "i", "z", "e">>
Xft_dpi       == <<"X", "f", "t", ".", "d", "p", "i">>

\* the strcmp() chain: the key a line's name selects, or "none"
KeyOfName(name) ==
    IF name = Xcursor_theme THEN RM_XCURSOR_THEME
    ELSE IF name = Xcursor_size THEN RM_XCURSOR_SIZE
    ELSE IF name = Xft_dpi THEN RM_XFT_DPI
    ELSE "none"

----------------------------------------------------------------------------
(* The heap *)

Block(kind, data) == [kind |-> kind, data |-> data, frees |-> 0]

\* malloc and its kin: the new block is the last one, its pointer Len(h) + 1
malloc(h, kind, data) == Append(h, Block(kind, data))

\* free(p): nothing for NULL, else one more release of the block
free(h, p) == IF p = 0 THEN h ELSE [h EXCEPT ![p].frees = @ + 1]

\* the text a string pointer points to
Text(h, p) == h[p].data

----------------------------------------------------------------------------
(* strtok_r() and the split of a line *)

\* strtok_r(str, "\n", &saveptr) on the buffer buf, from position start (str
\* in the first turn, saveptr afterwards): skips the delimiters, ends the
\* token with a NUL and leaves saveptr behind it; tok = 0 is NULL
strtok_r(buf, start) ==
    LET s == SkipOver(buf, start, {"\n"})
        e == ScanTo(buf, s, {"\n", NUL})
    IN  IF buf[s] = NUL THEN [tok |-> 0, save |-> s, buf |-> buf]
        ELSE IF buf[e] = NUL THEN [tok |-> s, save |-> e, buf |-> buf]
        ELSE [tok |-> s, save |-> e + 1, buf |-> [buf EXCEPT ![e] = NUL]]

\* a split that leaves the whitespace after the ':' in the value
SplitAt_keeps_space(buf, sep) ==
    [buf |-> [buf EXCEPT ![sep] = NUL], sep |-> sep + 1]

\* *(sep++) = '\0'; while (isspace(*sep)) sep++;  the buffer and the new sep
SplitAt(buf, sep) ==
    LET b == [buf EXCEPT ![sep] = NUL]
    IN  [buf |-> b, sep |-> SkipOver(b, sep + 1, Whitespace)]

----------------------------------------------------------------------------
(* get_default_size() *)

Ret(n) == [fault |-> "none", value |-> n]

\* a return that hands the int back as it is
ReturnU32_unconverted(n) == Ret(WOfInt(n))

\* the value a return statement hands back through the uint32_t return type
ReturnU32(n) == Ret(ToU32(WOfInt(n)))

\* dpi * 16 / 72 in int arithmetic: when dpi * 16 overflows the behaviour is
\* undefined: the product wraps around, is computed wide, or traps
DpiSize(dpi) ==
    LET prod == WMul(WOfInt(dpi), 16)
    IN  IF WInInt(prod) THEN {ReturnU32(CDiv(WToInt(prod), 72))}
        ELSE {ReturnU32(CDiv(WWrap32(prod), 72)),
              ReturnU32(WToInt(WDiv(prod, 72))),
              [fault |-> "trap", value |-> WOfInt(0)]}

\* the guess from the display size
DisplaySize(scr) ==
    LET dim == IF scr.height_in_pixels < scr.width_in_pixels
               THEN scr.height_in_pixels ELSE scr.width_in_pixels
    IN  ReturnU32(dim \div 48)

\* a heuristic that takes an empty Xcursor.size for an unset one
get_default_size_skips_empty(cc, scr, e, h) ==
    IF e # <<>> THEN {ReturnU32(n) : n \in atoi(e[1])}
    ELSE IF cc.rm[RM_XCURSOR_SIZE] # 0 /\ Text(h, cc.rm[RM_XCURSOR_SIZE]) # <<>>
    THEN {ReturnU32(n) : n \in atoi(Text(h, cc.rm[RM_XCURSOR_SIZE]))}
    ELSE IF cc.rm[RM_XFT_DPI] # 0
    THEN UNION {IF dpi > 0 THEN DpiSize(dpi) ELSE {DisplaySize(scr)} :
                    dpi \in atoi(Text(h, cc.rm[RM_XFT_DPI]))}
    ELSE {DisplaySize(scr)}

\* the outcomes of get_default_size(c, screen) with the environment e and the
\* heap h
get_default_size(cc, scr, e, h) ==
    IF e # <<>> THEN {ReturnU32(n) : n \in atoi(e[1])}
    ELSE IF cc.rm[RM_XCURSOR_SIZE] # 0
    THEN {ReturnU32(n) : n \in atoi(Text(h, cc.rm[RM_XCURSOR_SIZE]))}
    ELSE IF cc.rm[RM_XFT_DPI] # 0
    THEN UNION {IF dpi > 0 THEN DpiSize(dpi) ELSE {DisplaySize(scr)} :
                    dpi \in atoi(Text(h, cc.rm[RM_XFT_DPI]))}
    ELSE {DisplaySize(scr)}

----------------------------------------------------------------------------
(* The inputs: the environment, the screen, the RESOURCE_MANAGER property *)

Line_theme      == Xcursor_theme \o <<":", " ", "F", "o", "o">>
Line_size       == Xcursor_size \o <<":", " ", " ", "3", "2">>
Line_size_empty == Xcursor_size \o <<":">>
Line_size_blank == Xcursor_size \o <<":", " ", "\t">>
Line_dpi        == Xft_dpi \o <<":", "\t", "9", "6", ":", "x", " ">>
Line_dpi_zero   == Xft_dpi \o <<":", " ", "0">>
Line_bad        == <<"b", "a", "d">>
Line_key_space  == <<" ">> \o Xft_dpi \o <<":", " ", "7">>
Line_key_case   == <<"x">> \o Tail(Xcursor_size) \o <<":", " ", "9">>
Line_other      == <<"a", ":", "b">>
Line_none       == <<>>

SampleLines ==
    {Line_theme, Line_size, Line_size_empty, Line_size_blank, Line_dpi,
     Line_dpi_zero, Line_bad, Line_key_space, Line_key_case, Line_other,
     Line_none}

\* the lines put together, a newline between two of them
RECURSIVE Join(_)
Join(ls) ==
    IF Len(ls) = 0 THEN <<>>
    ELSE IF Len(ls) = 1 THEN ls[1]
    ELSE ls[1] \o <<"\n">> \o Join(Tail(ls))

Blobs == {Join(ls) : ls \in UNION {[1..n -> SampleLines] : n \in 0..MaxLines}}

\* the bytes of the reply that follow the property's value
Pad == <<":", "9">>

Replies == {<<>>} \cup {<<[value |-> b \o Pad, length |-> Len(b)]>> : b \in Blobs}

xcb_get_property_value_length(reply) == reply.length

xcb_get_property_value(reply) == reply.value

Screen(w, h) == [root |-> 1, width_in_pixels |-> w, height_in_pixels |-> h]

Screens == {Screen(1920, 1080)}

\* what reading through a screen pointer that points at no screen may yield
GarbageScreens == {Screen(0, 0), Screen(65535, 47)}

EnvSamples == {<<>>, <<<<"4", "0">>>>}

\* calloc(1, sizeof(struct xcb_cursor_context_t))
ZeroContext ==
    [root |-> 0, pf_reply |-> 0, rm |-> [k \in Keys |-> 0], size |-> WOfInt(0)]

ENOMEM == 12

\* the setup of a connection in error holds no screen
NoScreen == <<>>

\* the state before the first call, the inputs drawn from the given sets
InitWith(envs, screens, replies) ==
    /\ env \in envs
    /\ conn \in [screen   : screens,
                 rm_reply : replies,
                 pf       : BOOLEAN]
    /\ heap = <<>>
    /\ ctx = 0
    /\ c = ZeroContext
    /\ screen = Screen(0, 0)
    /\ rm = 0
    /\ str = 0
    /\ saveptr = 0
    /\ pc = "idle"
    /\ ret = 0
    /\ rm_reply = 0
    /\ fault = "none"
    /\ failed = {}

\* a connection that has a screen
Init == InitWith(EnvSamples, {<<sc>> : sc \in Screens}, Replies)

\* a connection that has a screen or is in error
InitConn == InitWith(EnvSamples, {NoScreen} \cup {<<sc>> : sc \in Screens}, Replies)

(* The inputs of the size heuristic: numerals in the environment and in the *)
(* property, and screens of several shapes                                  *)

SizeEnvSamples ==
    {<<>>,
     <<<<"4", "0">>>>,
     <<<<"-", "5">>>>,
     <<<<"0">>>>,
     <<<<"1", "2", "a", "b", "c">>>>,
     <<<<"a", "b", "c">>>>,
     <<<<" ", "+", "7">>>>}

SizeValues == {<<"2", "4">>, <<>>, <<"-", "3", " ">>}

DpiValues ==
    {<<"9", "6">>,
     <<"0">>,
     <<"-", "9", "6">>,
     <<"1", "3", "4", "2", "1", "7", "7", "2", "7">>,
     <<"1", "3", "4", "2", "1", "7", "7", "2", "8">>,
     <<"2", "1", "4", "7", "4", "8", "3", "6", "4", "7">>}

SizeBlobs ==
    LET sizes == {<<>>} \cup {<<Xcursor_size \o <<":", " ">> \o v>> : v \in SizeValues}
        dpis  == {<<>>} \cup {<<Xft_dpi \o <<":">> \o v>> : v \in DpiValues}
    IN  {Join(a \o b) : a \in sizes, b \in dpis}

SizeReplies == {<<[value |-> b \o Pad, length |-> Len(b)]>> : b \in SizeBlobs}

SizeScreens == {Screen(1920, 1080), Screen(1080, 1920), Screen(0, 0), Screen(47, 65535)}

InitSize == InitWith(SizeEnvSamples, {<<sc>> : sc \in SizeScreens}, SizeReplies)

----------------------------------------------------------------------------
(* xcb_cursor_context_new() *)

\* *ctx = calloc(...): on failure return -errno, else c = *ctx
xcb_cursor_context_new_calloc ==
    /\ pc = "idle"
    /\ fault = "none"
    /\ \/ /\ ctx' = 0
          /\ ret' = -ENOMEM
          /\ pc' = "returned"
          /\ UNCHANGED <<heap, c>>
       \/ /\ heap' = malloc(heap, "ctx", <<>>)
          /\ ctx' = Len(heap) + 1
          /\ c' = ZeroContext
          /\ pc' = "setup"
          /\ UNCHANGED ret
    /\ UNCHANGED <<env, conn, screen, rm, str, saveptr, rm_reply, fault, failed>>

\* screen = xcb_setup_roots_iterator(...).data; c->root = screen->root; the
\* requests are sent.  With no screen in the setup the pointer points at no
\* screen and reading through it is undefined behaviour
xcb_cursor_context_new_setup ==
    /\ pc = "setup"
    /\ \/ /\ conn.screen # NoScreen
          /\ screen' = conn.screen[1]
          /\ c' = [c EXCEPT !.root = conn.screen[1].root]
          /\ pc' = "reply"
          /\ UNCHANGED fault
       \/ /\ conn.screen = NoScreen
          /\ \E g \in GarbageScreens :
                /\ screen' = g
                /\ c' = [c EXCEPT !.root = g.root]
          /\ pc' = "reply"
          /\ UNCHANGED fault
       \/ /\ conn.screen = NoScreen
          /\ fault' = "segv"
          /\ pc' = "new_fault"
          /\ UNCHANGED <<screen, c>>
    /\ UNCHANGED <<env, conn, heap, ctx, rm, str, saveptr, ret, rm_reply, failed>>

\* rm_reply = xcb_get_property_reply(...); parse_resource_manager(c, rm_reply)
\* up to the loop: return on no reply, on an empty value, on a failed asprintf
parse_resource_manager_enter ==
    /\ pc = "reply"
    /\ LET got == conn.rm_reply # <<>>
           h1  == IF got THEN malloc(heap, "rm_reply", <<>>) ELSE heap
           p   == IF got THEN Len(heap) + 1 ELSE 0
       IN  /\ rm_reply' = p
           /\ IF ~got \/ xcb_get_property_value_length(conn.rm_reply[1]) = 0
              THEN /\ heap' = h1
                   /\ pc' = "parsed"
                   /\ UNCHANGED <<rm, str>>
              ELSE \/ /\ heap' = h1
                      /\ pc' = "parsed"
                      /\ UNCHANGED <<rm, str>>
                   \/ /\ heap' = malloc(h1, "rm",
                              PrintfPrecS(xcb_get_property_value(conn.rm_reply[1]),
                                          xcb_get_property_value_length(conn.rm_reply[1])))
                      /\ rm' = Len(h1) + 1
                      /\ str' = 1
                      /\ pc' = "loop"
    /\ UNCHANGED <<env, conn, ctx, c, screen, saveptr, ret, fault, failed>>

\* an assignment that keeps the value a key already has
Assign_keeps_first(h, key, text) ==
    IF c.rm[key] # 0
    THEN heap' = h /\ UNCHANGED <<c, failed>>
    ELSE \/ /\ heap' = h
            /\ c' = [c EXCEPT !.rm[key] = 0]
            /\ failed' = failed \cup {key}
         \/ /\ heap' = malloc(h, "str", text)
            /\ c' = [c EXCEPT !.rm[key] = Len(h) + 1]
            /\ failed' = failed \ {key}

\* c->rm[key] = strdup(sep): NULL when the copy cannot be allocated
Assign(h, key, text) ==
    \/ /\ heap' = h
       /\ c' = [c EXCEPT !.rm[key] = 0]
       /\ failed' = failed \cup {key}
    \/ /\ heap' = malloc(h, "str", text)
       /\ c' = [c EXCEPT !.rm[key] = Len(h) + 1]
       /\ failed' = failed \ {key}

\* a loop that skips a line without ':' and goes on with the next one
LoopEnds_skip_invalid(tok, sep) == tok = 0

\* the loop is left when strtok_r() finds no line or strchr() no ':'
LoopEnds(tok, sep) == tok = 0 \/ sep = 0

\* one turn of the loop: the next line, its split at the ':' and the strcmp
\* chain; no line left or a line without ':' frees rm and returns
parse_resource_manager_line ==
    /\ pc = "loop"
    /\ LET t   == strtok_r(Text(heap, rm), IF str # 0 THEN str ELSE saveptr)
           sep == strchr(t.buf, t.tok, ":")
           sp  == SplitAt(t.buf, sep)
           key == KeyOfName(CStr(sp.buf, t.tok))
       IN  /\ saveptr' = t.save
           /\ str' = 0
           /\ IF LoopEnds(t.tok, sep)
              THEN /\ heap' = free([heap EXCEPT ![rm].data = t.buf], rm)
                   /\ pc' = "parsed"
                   /\ UNCHANGED <<c, failed>>
              ELSE /\ pc' = "loop"
                   /\ IF key = "none"
                      THEN /\ heap' = [heap EXCEPT ![rm].data = sp.buf]
                           /\ UNCHANGED <<c, failed>>
                      ELSE Assign([heap EXCEPT ![rm].data = sp.buf], key,
                                  CStr(sp.buf, sp.sep))
    /\ UNCHANGED <<env, conn, ctx, screen, rm, ret, rm_reply, fault>>

\* free(rm_reply); c->pf_reply = xcb_render_query_pict_formats_reply(...)
xcb_cursor_context_new_formats ==
    /\ pc = "parsed"
    /\ LET h1 == free(heap, rm_reply)
       IN  IF conn.pf
           THEN /\ heap' = malloc(h1, "pf_reply", <<>>)
                /\ c' = [c EXCEPT !.pf_reply = Len(h1) + 1]
           ELSE /\ heap' = h1
                /\ c' = [c EXCEPT !.pf_reply = 0]
    /\ pc' = "size"
    /\ UNCHANGED <<env, conn, ctx, screen, rm, str, saveptr, ret, rm_reply, fault, failed>>

\* c->size = get_default_size(c, screen); return 0
xcb_cursor_context_new_size ==
    /\ pc = "size"
    /\ \E r \in get_default_size(c, screen, env, heap) :
          IF r.fault = "none"
          THEN /\ c' = [c EXCEPT !.size = r.value]
               /\ ret' = 0
               /\ pc' = "returned"
               /\ UNCHANGED fault
          ELSE /\ fault' = r.fault
               /\ pc' = "new_fault"
               /\ UNCHANGED <<c, ret>>
    /\ UNCHANGED <<env, conn, heap, ctx, screen, rm, str, saveptr, rm_reply, failed>>

----------------------------------------------------------------------------
(* xcb_cursor_context_free() *)

\* FREE(c->rm[...]) three times, free(c->pf_reply), free(c)
FreeContext(h, p, cc) ==
    LET FREE(hh, q) == IF q # 0 THEN free(hh, q) ELSE hh
        h1 == FREE(h, cc.rm[RM_XCURSOR_THEME])
        h2 == FREE(h1, cc.rm[RM_XCURSOR_SIZE])
        h3 == FREE(h2, cc.rm[RM_XFT_DPI])
        h4 == free(h3, cc.pf_reply)
    IN  free(h4, p)

\* xcb_cursor_context_free(p), called with the context xcb_cursor_context_new
\* returned (once) or with NULL: c->rm[...] is then read through a null
\* pointer, which is undefined behaviour (the process is killed, or whatever
\* is read there is freed)
xcb_cursor_context_free(p) ==
    /\ fault = "none"
    /\ IF p # 0
       THEN /\ pc = "returned"
            /\ p = ctx
            /\ heap' = FreeContext(heap, p, c)
            /\ pc' = "freed"
            /\ UNCHANGED fault
       ELSE /\ pc \in {"idle", "returned", "freed"}
            /\ fault' \in {"segv", "corrupt"}
            /\ pc' = "free_fault"
            /\ UNCHANGED heap
    /\ UNCHANGED <<env, conn, ctx, c, screen, rm, str, saveptr, ret, rm_reply, failed>>

----------------------------------------------------------------------------

Next ==
    \/ xcb_cursor_context_new_calloc
    \/ xcb_cursor_context_new_setup
    \/ parse_resource_manager_enter
    \/ parse_resource_manager_line
    \/ xcb_cursor_context_new_formats
    \/ xcb_cursor_context_new_size
    \/ \E p \in {0, ctx} : xcb_cursor_context_free(p)

Spec == Init /\ [][Next]_vars

SpecConn == InitConn /\ [][Next]_vars

SpecSize == InitSize /\ [][Next]_vars

----------------------------------------------------------------------------
(* The property's text read line by line, as the claims speak of it *)

\* the declared bytes of the property: <<>> when there is no reply
TheBlob ==
    IF conn.rm_reply = <<>> THEN <<>>
    ELSE SubSeq(conn.rm_reply[1].value, 1, conn.rm_reply[1].length)

\* the non-empty lines of b in order: b is cut at every "\n" and the empty
\* pieces are dropped
RECURSIVE NonEmptyLines(_)
NonEmptyLines(b) ==
    IF b = <<>> THEN <<>>
    ELSE LET nl   == {i \in 1..Len(b) : b[i] = "\n"}
             n    == IF nl = {} THEN Len(b) + 1
                     ELSE CHOOSE i \in nl : \A j \in nl : i <= j
             head == SubSeq(b, 1, n - 1)
         IN  (IF head = <<>> THEN <<>> ELSE <<head>>)
                 \o NonEmptyLines(SubSeq(b, n + 1, Len(b)))

\* the non-empty lines of the property
TheLines == NonEmptyLines(TheBlob)

HasColon(t) == \E i \in 1..Len(t) : t[i] = ":"

FirstColon(t) == CHOOSE i \in 1..Len(t) : t[i] = ":" /\ \A j \in 1..(i - 1) : t[j] # ":"

\* the text before the first ':' and the text after it less its leading
\* whitespace
NameOf(t) == SubSeq(t, 1, FirstColon(t) - 1)

ValueOf(t) ==
    LET rest == SubSeq(t, FirstColon(t) + 1, Len(t))
        k    == CHOOSE n \in 0..Len(rest) :
                    /\ \A i \in 1..n : rest[i] \in Whitespace
                    /\ n = Len(rest) \/ rest[n + 1] \notin Whitespace
    IN  SubSeq(rest, k + 1, Len(rest))

\* the names of the recognized keys
Recognized ==
    (RM_XCURSOR_THEME :> Xcursor_theme) @@ (RM_XCURSOR_SIZE :> Xcursor_size)
        @@ (RM_XFT_DPI :> Xft_dpi)

\* the number of the first of the lines ls without ':' (Len(ls) + 1: none)
FirstBad(ls) ==
    CHOOSE n \in 1..(Len(ls) + 1) :
        /\ n <= Len(ls) => ~HasColon(ls[n])
        /\ \A m \in 1..(n - 1) : HasColon(ls[m])

\* the last of the lines ls[1..upto], all with a ':', whose name is that of
\* key k, or 0
LastLineOf(ls, k, upto) ==
    LET hits == {n \in 1..upto : NameOf(ls[n]) = Recognized[k]}
    IN  IF hits = {} THEN 0 ELSE CHOOSE n \in hits : \A m \in hits : m <= n

\* parse_resource_manager() has returned and the context is not yet released
Parsed == pc \in {"parsed", "size"} \/ (pc = "returned" /\ ctx # 0)

\* the blob was there to parse: a reply of non-zero length, copied by asprintf
Copied == rm # 0

\* key k holds what the lines ls[1..upto] assigned: the value of the last of
\* them that names k, nothing when none names k or when strdup() could not
\* copy that value
HoldsPrefix(ls, k, upto) ==
    LET n == LastLineOf(ls, k, upto)
    IN  IF ~Copied \/ n = 0 \/ k \in failed THEN c.rm[k] = 0
        ELSE c.rm[k] # 0 /\ Text(heap, c.rm[k]) = ValueOf(ls[n])

(* C2: when a non-empty line of the blob has no ':', the table after the    *)
(* parse holds exactly what the lines before the first such line assigned:  *)
(* that line and every later line contribute nothing, and what the earlier  *)
(* lines stored is kept.                                                    *)
C2_AbortKeepsEarlierLines ==
    Parsed =>
        LET ls  == TheLines
            bad == FirstBad(ls)
        IN  bad <= Len(ls) => \A k \in Keys : HoldsPrefix(ls, k, bad - 1)

\* a parse that stopped at a line without ':' after storing a value, with a
\* recognized line behind the stop
C2_Witness ==
    /\ Parsed
    /\ TheBlob = Line_theme \o <<"\n">> \o Line_bad
    /\ c.rm[RM_XCURSOR_THEME] # 0
    /\ Text(heap, c.rm[RM_XCURSOR_THEME]) = <<"F", "o", "o">>

(* C6 as stated: in a blob whose non-empty lines all have a ':', each       *)
(* recognized key maps after parsing to the value of the last line whose    *)
(* name equals it, and a key with no such line is unset.                    *)
C6_LastLineWins ==
    Parsed =>
        LET ls == TheLines
        IN  FirstBad(ls) > Len(ls) =>
                \A k \in Keys :
                    LET n == LastLineOf(ls, k, Len(ls))
                    IN  IF n = 0 THEN c.rm[k] = 0
                        ELSE c.rm[k] # 0 /\ Text(heap, c.rm[k]) = ValueOf(ls[n])

(* C6 as amended: in a blob whose non-empty lines all have a ':', each      *)
(* recognized key maps after parsing to the value of the last line whose    *)
(* name equals it when the copy of the blob and the copy of that value      *)
(* could be allocated; it is unset when one of these copies failed or when  *)
(* no line has its name.                                                    *)
C6_LastCopiedLineWins ==
    Parsed =>
        LET ls == TheLines
        IN  FirstBad(ls) > Len(ls) => \A k \in Keys : HoldsPrefix(ls, k, Len(ls))

\* two lines of one key, both copied: the key holds the second value
C6_Witness ==
    /\ Parsed
    /\ TheBlob = Line_dpi \o <<"\n">> \o Line_dpi_zero
    /\ c.rm[RM_XFT_DPI] # 0
    /\ Text(heap, c.rm[RM_XFT_DPI]) = <<"0">>

\* the line the next turn of the loop takes: the first non-empty line of the
\* blob at or after strtok_r()'s position (<<>>: no line is left)
UpcomingLine ==
    LET from == IF str # 0 THEN str ELSE saveptr
        rest == NonEmptyLines(SubSeq(TheBlob, from, Len(TheBlob)))
    IN  IF rest = <<>> THEN <<>> ELSE rest[1]

(* C7: a line with a ':' is split at its first ':' only.  The text before   *)
(* it, untrimmed and compared exactly with the three names, selects the     *)
(* key; the value stored for that key is the text after that ':' less its   *)
(* leading whitespace, later ':' and trailing whitespace included (nothing  *)
(* is stored when strdup() cannot copy it); the other keys keep their       *)
(* values, and a line of any other name leaves the table as it is.          *)
C7_SplitAtFirstColon ==
    [][(parse_resource_manager_line /\ HasColon(UpcomingLine)) =>
        LET t == UpcomingLine
        IN  IF \E k \in Keys : Recognized[k] = NameOf(t)
            THEN LET k == CHOOSE j \in Keys : Recognized[j] = NameOf(t)
                 IN  /\ \A j \in Keys \ {k} : c'.rm[j] = c.rm[j]
                     /\ \/ k \in failed' /\ c'.rm[k] = 0 /\ Len(heap') = Len(heap)
                        \/ /\ k \notin failed'
                           /\ c'.rm[k] = Len(heap) + 1
                           /\ Len(heap') = Len(heap) + 1
                           /\ heap'[c'.rm[k]] = Block("str", ValueOf(t))
            ELSE c'.rm = c.rm /\ Len(heap') = Len(heap)]_vars

\* the value of a line with whitespace after the first ':', a second ':' and
\* a trailing blank is stored, and lines whose names differ from a key's in
\* case or by a leading blank have stored nothing
C7_Witness ==
    /\ Parsed
    /\ TheBlob \in {Line_dpi \o <<"\n">> \o Line_key_space,
                    Line_dpi \o <<"\n">> \o Line_key_case}
    /\ c.rm[RM_XFT_DPI] # 0
    /\ Text(heap, c.rm[RM_XFT_DPI]) = <<"9", "6", ":", "x", " ">>
    /\ c.rm[RM_XCURSOR_SIZE] = 0

\* xcb_cursor_context_new() has returned 0: the context is complete
Constructed == pc = "returned" /\ ctx # 0

\* the last line naming Xcursor.size among the lines the parse went through
\* (those before the first line without ':'), or 0
LastSizeLine ==
    LastLineOf(TheLines, RM_XCURSOR_SIZE, FirstBad(TheLines) - 1)

\* what the rules after Xcursor.size give for the context's Xft.dpi and the
\* screen (the dpi of the sample properties are small)
LaterRules ==
    LET dpi == IF c.rm[RM_XFT_DPI] = 0 THEN 0
               ELSE WToInt(AtoiValue(Text(heap, c.rm[RM_XFT_DPI])))
        dim == IF screen.height_in_pixels < screen.width_in_pixels
               THEN screen.height_in_pixels ELSE screen.width_in_pixels
    IN  IF dpi > 0 THEN WOfInt((dpi * 16) \div 72) ELSE WOfInt(dim \div 48)

(* C10 as stated: a recognized key whose line has nothing, or only          *)
(* whitespace, after the ':' is set to the empty string, which is not       *)
(* unset: with no XCURSOR_SIZE in the environment the size is then 0 by     *)
(* rule 2, while a blob without the key leaves CursorSize unset and the     *)
(* later rules give the size.                                               *)
C10_EmptyIsSet ==
    Constructed =>
        LET n == LastSizeLine
        IN  IF n # 0
            THEN ValueOf(TheLines[n]) = <<>> =>
                    /\ c.rm[RM_XCURSOR_SIZE] # 0
                    /\ Text(heap, c.rm[RM_XCURSOR_SIZE]) = <<>>
                    /\ env = <<>> => c.size = WOfInt(0)
            ELSE /\ c.rm[RM_XCURSOR_SIZE] = 0
                 /\ env = <<>> => c.size = LaterRules

(* C10 as amended: when the copy of the blob and the copy of the value      *)
(* could be allocated, a recognized key whose line has nothing, or only     *)
(* whitespace, after the ':' is set to the empty string, and with no        *)
(* XCURSOR_SIZE in the environment the size is then 0 by rule 2; when one   *)
(* of the copies failed, or the blob has no such line, CursorSize is unset  *)
(* and the later rules give the size.                                       *)
C10_EmptyIsSetWhenCopied ==
    Constructed =>
        LET n == LastSizeLine
        IN  IF n # 0 /\ Copied /\ RM_XCURSOR_SIZE \notin failed
            THEN ValueOf(TheLines[n]) = <<>> =>
                    /\ c.rm[RM_XCURSOR_SIZE] # 0
                    /\ Text(heap, c.rm[RM_XCURSOR_SIZE]) = <<>>
                    /\ env = <<>> => c.size = WOfInt(0)
            ELSE /\ c.rm[RM_XCURSOR_SIZE] = 0
                 /\ env = <<>> => c.size = LaterRules

\* "Xcursor.size:" before a usable Xft.dpi, no XCURSOR_SIZE: the size is 0,
\* not the 21 of rule 3
C10_Witness ==
    /\ Constructed
    /\ env = <<>>
    /\ TheBlob \in {Line_size_empty \o <<"\n">> \o Line_dpi,
                    Line_size_blank \o <<"\n">> \o Line_dpi}
    /\ c.rm[RM_XCURSOR_SIZE] # 0
    /\ c.rm[RM_XFT_DPI] # 0
    /\ c.size = WOfInt(0)

(* C3: after one construct and one release every string allocated for a     *)
(* recognized key while parsing has been freed exactly once, also when a    *)
(* key occurs on more than one line: none is leaked, none is freed twice.   *)
C3_StringsFreedOnce ==
    pc = "freed" =>
        \A p \in 1..Len(heap) : heap[p].kind = "str" => heap[p].frees = 1

(* C4: xcb_cursor_context_free() called with NULL is a no-op: it frees      *)
(* nothing, reads no field and completes normally.                          *)
C4_FreeNullIsNoOp ==
    [][xcb_cursor_context_free(0) => (fault' = "none" /\ heap' = heap)]_vars

(* C5: xcb_cursor_context_new() fails only when the context cannot be       *)
(* allocated, and then returns no context; whatever the connection answers  *)
(* (no screen, no property reply, no format reply, a failed copy of the     *)
(* blob) it completes and returns 0 with a context whose table holds only   *)
(* what was parsed, every key unset when the property could not be read or  *)
(* copied, and whose size comes from the fallback chain.                    *)
C5_OnlyAllocationFails ==
    /\ pc # "new_fault"
    /\ pc = "returned" => IF ctx = 0 THEN ret < 0 ELSE ret = 0
    /\ (Constructed /\ ~Copied) => \A k \in Keys : c.rm[k] = 0
    /\ (Constructed /\ env = <<>> /\ c.rm[RM_XCURSOR_SIZE] = 0) => c.size = LaterRules

----------------------------------------------------------------------------
(* The size heuristic, as the claims speak of it *)

\* the number the permissive parse reads in the text a string pointer holds
ParseOf(p) == AtoiValue(Text(heap, p))

WIsPositive(w) == w.hi > 0 \/ (w.hi = 0 /\ w.lo > 0)

\* min(width, height) / 48
GeometrySize ==
    LET w == screen.width_in_pixels
        h == screen.height_in_pixels
    IN  WOfInt((IF h < w THEN h ELSE w) \div 48)

\* the result of the first applicable rule, as a number
FirstRule ==
    IF env # <<>> THEN AtoiValue(env[1])
    ELSE IF c.rm[RM_XCURSOR_SIZE] # 0 THEN ParseOf(c.rm[RM_XCURSOR_SIZE])
    ELSE IF c.rm[RM_XFT_DPI] # 0 /\ WIsPositive(ParseOf(c.rm[RM_XFT_DPI]))
    THEN WDiv(WMul(ParseOf(c.rm[RM_XFT_DPI]), 16), 72)
    ELSE GeometrySize

(* C1: the size is the result of the first applicable rule, as the          *)
(* uint32_t the function returns: the parse of XCURSOR_SIZE when it is set; *)
(* else the parse of CursorSize when it is set, also when it is 0; else     *)
(* dpi * 16 / 72 when FontDpi is set and parses to dpi > 0; else            *)
(* min(width, height) / 48.                                                 *)
C1_FirstRuleWins == Constructed => c.size = ToU32(FirstRule)

\* the size override in force: XCURSOR_SIZE, else CursorSize
HasOverride == env # <<>> \/ c.rm[RM_XCURSOR_SIZE] # 0

Override ==
    IF env # <<>> THEN AtoiValue(env[1]) ELSE ParseOf(c.rm[RM_XCURSOR_SIZE])

(* C8 as stated: when XCURSOR_SIZE, or with no XCURSOR_SIZE the CursorSize  *)
(* value, parses to a negative n, the size stored in the context is n.      *)
C8_NegativeStored ==
    (Constructed /\ HasOverride /\ Override.hi < 0) => c.size = Override

(* C8 as amended: when XCURSOR_SIZE, or with no XCURSOR_SIZE the CursorSize *)
(* value, parses to a negative n, the size stored in the context is         *)
(* n + 2^32: n converted to uint32_t, the type of the size, which is never  *)
(* negative.                                                                *)
C8_NegativeStoredAsU32 ==
    (Constructed /\ HasOverride /\ Override.hi < 0) =>
        /\ c.size = Wide(Override.hi + B16, Override.lo)
        /\ c.size.hi >= 0

\* XCURSOR_SIZE=-5: the stored size is 4294967291
C8_Witness ==
    /\ Constructed
    /\ env = <<<<"-", "5">>>>
    /\ c.size = Wide(B16 - 1, B16 - 5)

(* C9: with no XCURSOR_SIZE and CursorSize unset, for a FontDpi that parses *)
(* to a dpi in 1..2^31-1 the size is floor(dpi * 16 / 72), also when        *)
(* dpi * 16 exceeds the range of a 32-bit int.                              *)
C9_DpiSizeIsExact ==
    (/\ Constructed
     /\ env = <<>>
     /\ c.rm[RM_XCURSOR_SIZE] = 0
     /\ c.rm[RM_XFT_DPI] # 0
     /\ WIsPositive(ParseOf(c.rm[RM_XFT_DPI]))
     /\ WInInt(ParseOf(c.rm[RM_XFT_DPI])))
        => c.size = WDiv(WMul(ParseOf(c.rm[RM_XFT_DPI]), 16), 72)

============================================================================
